---- MODULE Spec2Model ----
(***************************************************************************)
(* Model of scripts/test-matrix.py, the local test-matrix runner.          *)
(*                                                                         *)
(* Strings are sequences of one-character strings, so that prefix tests,   *)
(* slicing, regular-expression matching and formatting are computed the    *)
(* way the script computes them.  A dictionary is a function whose domain  *)
(* is the set of its keys.                                                 *)
(***************************************************************************)
EXTENDS Integers, Sequences, FiniteSets, TLC

\* ------------------------------------------------------------------------
\* Characters and strings
\* ------------------------------------------------------------------------

\* The characters matched by [A-Za-z0-9_] (and by \w on these inputs).
WordChars ==
    {"A","B","C","D","E","F","G","H","I","J","K","L","M","N","O","P","Q","R",
     "S","T","U","V","W","X","Y","Z",
     "a","b","c","d","e","f","g","h","i","j","k","l","m","n","o","p","q","r",
     "s","t","u","v","w","x","y","z",
     "0","1","2","3","4","5","6","7","8","9","_"}

\* The characters matched by \s (and removed by str.strip()).
WhiteSpace == {" ", "\t", "\n", "\r", "\f"}

EmptyStr == <<>>

\* The empty dictionary {}.
EmptyDict == [k \in {} |-> EmptyStr]

\* d.update(e): the keys of e win.
Update(d, e) == [k \in (DOMAIN d) \cup (DOMAIN e) |-> IF k \in DOMAIN e THEN e[k] ELSE d[k]]

\* d[k] = v
SetItem(d, k, v) == [x \in (DOMAIN d) \cup {k} |-> IF x = k THEN v ELSE d[x]]

\* s[i:] with a 1-based first index i.
From(s, i) == SubSeq(s, i, Len(s))

\* First index >= i of s whose character is not in set cs; Len(s)+1 if none.
RECURSIVE RunEnd(_, _, _)
RunEnd(s, i, cs) ==
    IF i > Len(s) THEN Len(s) + 1
    ELSE IF s[i] \in cs THEN RunEnd(s, i + 1, cs)
    ELSE i

\* First index >= i of s whose character is in set cs; Len(s)+1 if none.
RECURSIVE FindIn(_, _, _)
FindIn(s, i, cs) ==
    IF i > Len(s) THEN Len(s) + 1
    ELSE IF s[i] \in cs THEN i
    ELSE FindIn(s, i + 1, cs)

\* Last index of s whose character is not in cs; 0 if none.
RECURSIVE LastNotIn(_, _, _)
LastNotIn(s, i, cs) ==
    IF i < 1 THEN 0
    ELSE IF s[i] \in cs THEN LastNotIn(s, i - 1, cs)
    ELSE i

\* s.strip()
Strip(s) == SubSeq(s, RunEnd(s, 1, WhiteSpace), LastNotIn(s, Len(s), WhiteSpace))

\* Is position i of s (between s[i-1] and s[i]) a \b word boundary?
IsWordAt(s, i) == i >= 1 /\ i <= Len(s) /\ s[i] \in WordChars
WordBoundary(s, i) == IsWordAt(s, i - 1) # IsWordAt(s, i)

\* '%d' % n for n >= 0
Digit(d) == <<"0","1","2","3","4","5","6","7","8","9">>[d + 1]
RECURSIVE FormatInt(_)
FormatInt(n) == IF n < 10 THEN <<Digit(n)>> ELSE FormatInt(n \div 10) \o <<Digit(n % 10)>>

\* ------------------------------------------------------------------------
\* parse_env_vars
\* ------------------------------------------------------------------------

DQuote == "\""

\* Variant: the quoted alternative captures the quotes with the value.
EnvMatchAt_KeepsQuotes(s, i) ==
    LET j == RunEnd(s, i, WordChars)
        q == FindIn(s, j + 2, {DQuote})
        e == FindIn(s, j + 1, WhiteSpace)
    IN  IF j = i \/ j > Len(s) \/ s[j] # "="
        THEN [matched |-> FALSE, k |-> EmptyStr, v |-> EmptyStr, end |-> i + 1]
        ELSE IF j + 1 <= Len(s) /\ s[j + 1] = DQuote /\ q <= Len(s) /\ q > j + 2
        THEN [matched |-> TRUE, k |-> SubSeq(s, i, j - 1),
              v |-> SubSeq(s, j + 1, q), end |-> q + 1]
        ELSE [matched |-> TRUE, k |-> SubSeq(s, i, j - 1),
              v |-> SubSeq(s, j + 1, e - 1), end |-> e]

\* One attempt of the regular expression
\*     ([A-Za-z0-9_]+)=(?:"([^"]+)"|(\S*))
\* at index i of s.  The name is the maximal run of word characters (a
\* shorter run is followed by a word character, never by "=").  The quoted
\* alternative needs a non-empty run of non-quote characters closed by a
\* quote; otherwise the unquoted alternative takes the maximal (possibly
\* empty) run of non-whitespace characters.  v = group(2) or group(3).
EnvMatchAt(s, i) ==
    LET j == RunEnd(s, i, WordChars)                \* index of "="
        q == FindIn(s, j + 2, {DQuote})             \* closing quote
        e == FindIn(s, j + 1, WhiteSpace)           \* end of the \S* run
    IN  IF j = i \/ j > Len(s) \/ s[j] # "="
        THEN [matched |-> FALSE, k |-> EmptyStr, v |-> EmptyStr, end |-> i + 1]
        ELSE IF j + 1 <= Len(s) /\ s[j + 1] = DQuote /\ q <= Len(s) /\ q > j + 2
        THEN [matched |-> TRUE, k |-> SubSeq(s, i, j - 1),
              v |-> SubSeq(s, j + 2, q - 1), end |-> q + 1]
        ELSE [matched |-> TRUE, k |-> SubSeq(s, i, j - 1),
              v |-> SubSeq(s, j + 1, e - 1), end |-> e]

\* re.finditer over s from index i, folding the matches into env_vars.
RECURSIVE ParseFrom(_, _, _)
ParseFrom(s, i, env_vars) ==
    IF i > Len(s) THEN env_vars
    ELSE LET m == EnvMatchAt(s, i)
         IN  IF m.matched
             THEN ParseFrom(s, m.end, SetItem(env_vars, m.k, m.v))
             ELSE ParseFrom(s, i + 1, env_vars)

parse_env_vars(s) == ParseFrom(Strip(s), 1, EmptyDict)

\* ------------------------------------------------------------------------
\* translate_script
\* ------------------------------------------------------------------------

\* Index of the first "&&" of s at or after i; Len(s)+1 if none.
RECURSIVE FindAndAnd(_, _)
FindAndAnd(s, i) ==
    IF i + 1 > Len(s) THEN Len(s) + 1
    ELSE IF s[i] = "&" /\ s[i + 1] = "&" THEN i
    ELSE FindAndAnd(s, i + 1)

\* s.split("&&"), from index i
RECURSIVE SplitFrom(_, _)
SplitFrom(s, i) ==
    LET j == FindAndAnd(s, i)
    IN  IF j > Len(s) THEN <<SubSeq(s, i, Len(s))>>
        ELSE <<SubSeq(s, i, j - 1)>> \o SplitFrom(s, j + 2)

translate_script(s) ==
    LET parts == SplitFrom(s, 1)
    IN  [n \in 1..Len(parts) |-> Strip(parts[n])]

\* ------------------------------------------------------------------------
\* Variable substitution in a script step
\* ------------------------------------------------------------------------

\* One attempt of the regular expression
\*     \$(?:([A-Za-z0-9_]+)|{([A-Za-z0-9_]+)})\b
\* at index i of s.  end is the index after the match.  In the first
\* alternative the name may backtrack to any shorter run that ends at a word
\* boundary; in the second the name is the whole run up to "}" and the \b
\* is tested after the closing brace.
SubMatchAt(s, i) ==
    LET j  == RunEnd(s, i + 1, WordChars)
        bs == {k \in (i + 2)..j : WordBoundary(s, k)}
        j2 == RunEnd(s, i + 2, WordChars)
        no == [matched |-> FALSE, name |-> EmptyStr, end |-> i + 1]
    IN  IF s[i] # "$" THEN no
        ELSE IF bs # {}
        THEN LET e == CHOOSE k \in bs : \A x \in bs : x <= k
             IN  [matched |-> TRUE, name |-> SubSeq(s, i + 1, e - 1), end |-> e]
        ELSE IF /\ i + 1 <= Len(s) /\ s[i + 1] = "{"
                /\ j2 > i + 2 /\ j2 <= Len(s) /\ s[j2] = "}"
                /\ WordBoundary(s, j2 + 1)
        THEN [matched |-> TRUE, name |-> SubSeq(s, i + 2, j2 - 1), end |-> j2 + 1]
        ELSE no

\* re.sub(pattern, sub_env, cmd) from index i.  ok = FALSE stands for the
\* KeyError raised by sub_env when the name is not a key of cmd_env.
RECURSIVE ReSubFrom(_, _, _)
ReSubFrom(s, i, cmd_env) ==
    IF i > Len(s) THEN [ok |-> TRUE, out |-> EmptyStr]
    ELSE LET m == SubMatchAt(s, i)
         IN  IF m.matched
             THEN IF m.name \notin DOMAIN cmd_env
                  THEN [ok |-> FALSE, out |-> EmptyStr]
                  ELSE LET rest == ReSubFrom(s, m.end, cmd_env)
                       IN  [ok |-> rest.ok, out |-> cmd_env[m.name] \o rest.out]
             ELSE LET rest == ReSubFrom(s, i + 1, cmd_env)
                  IN  [ok |-> rest.ok, out |-> <<s[i]>> \o rest.out]

Substitute(cmd, cmd_env) == ReSubFrom(cmd, 1, cmd_env)

\* ------------------------------------------------------------------------
\* Inputs: the configuration (.travis.yml), the inherited process
\* environment (os.environ) and the command line (sys.argv[1:])
\* ------------------------------------------------------------------------

\* Longest command line explored.
MaxArgs == 2

vA == <<"a">>
vB == <<"b">>
vC == <<"c">>

CARGO_TARGET_DIR == <<"C","A","R","G","O","_","T","A","R","G","E","T","_","D","I","R">>

nX == <<"X">>
nY == <<"Y">>
nU == <<"U">>
nH == <<"H">>

\* An entry of matrix.include: the keys 'rust' and 'env' are optional.
Row(has_rust, rust, has_env, env) ==
    [has_rust |-> has_rust, rust |-> rust, has_env |-> has_env, env |-> env]

\* The {} that main() chains in front of matrix.include.
EmptyRow == Row(FALSE, EmptyStr, FALSE, EmptyStr)

\* Values of the 'script' key.
ScriptOne    == <<"t">>
ScriptThree  == <<"t"," ","&","&"," ","u"," ","&","&"," ","w">>
ScriptSub    == <<"e"," ","$","X"," ","&","&"," ","f"," ","$","{","Y","}","z"," ","$","{","X","}">>
ScriptUndef  == <<"t"," ","&","&"," ","e"," ","$","U"," ","&","&"," ","u">>
ScriptBrace  == <<"e"," ","$","{","U","}"," ","&","&"," ","t">>
Scripts == {ScriptOne, ScriptThree, ScriptSub, ScriptUndef, ScriptBrace}

\* Values of the 'env' and 'matrix.include' keys ('env' may be absent).
Shape(has_env, env, include) == [has_env |-> has_env, env |-> env, include |-> include]
Shapes ==
    { Shape(FALSE, <<>>, <<>>),
      Shape(TRUE, <<<<"X","=","1">>, <<"X","=","2"," ","Y","=","\"","4"," ","5","\"">>>>,
            <<Row(TRUE, vA, TRUE, <<"Y","=","9">>)>>),
      Shape(TRUE, <<<<"X","=","1"," ","C","A","R","G","O","_","T","A","R","G","E","T","_","D","I","R","=","d">>>>,
            <<Row(FALSE, EmptyStr, TRUE, <<"U","=","7"," ","X","=","9">>)>>),
      Shape(TRUE, <<>>, <<Row(FALSE, EmptyStr, FALSE, EmptyStr)>>),
      Shape(TRUE, <<<<"Y","=","2">>>>,
            <<Row(TRUE, vB, TRUE, <<"C","A","R","G","O","_","T","A","R","G","E","T","_","D","I","R","=","d">>),
              Row(TRUE, vA, FALSE, EmptyStr)>>) }

\* Values of os.environ.
Environs ==
    { EmptyDict,
      (nH :> <<"h">>) @@ (nX :> <<"0">>) @@ (nY :> <<"y">>) @@ (CARGO_TARGET_DIR :> <<"o","l","d">>) }

\* The configurations explored: one with three versions and a one-step
\* script, on which every command line is tried, and the combinations of
\* scripts, matrix shapes and environments on two versions.
Travis(rust, scr, shape) ==
    [rust |-> rust, script |-> scr, has_env |-> shape.has_env,
     env |-> shape.env, include |-> shape.include]

SelectionInputs ==
    { [travis |-> Travis(<<vA, vB, vC>>, ScriptOne, Shape(FALSE, <<>>, <<>>)),
       environ |-> EmptyDict,
       args |-> {vA, vB, vC, <<"-">> \o vA, <<"-">> \o vB, <<"-">> \o vC,
                 <<"z">>, <<"-", "z">>}] }

MatrixInputs ==
    { [travis |-> Travis(<<vA, vB>>, scr, sh), environ |-> e,
       args |-> {vB, <<"-">> \o vA}] :
         scr \in Scripts, sh \in Shapes, e \in Environs }

Inputs == SelectionInputs \cup MatrixInputs

\* Sequences over S of length at most n.
SeqsUpTo(S, n) == UNION {[1..m -> S] : m \in 0..n}

\* Most tokens of an environment string explored.
MaxTokens == 3

\* A token NAME=v or NAME="v" of an environment string.
Token(name, quoted, v) == [name |-> name, quoted |-> quoted, v |-> v]
Tokens ==
    { Token(nX, FALSE, <<"1">>),                 \* X=1
      Token(nX, FALSE, EmptyStr),                \* X=
      Token(nX, TRUE, <<"a"," ","b">>),          \* X="a b"
      Token(nY, FALSE, <<"b", DQuote>>),         \* Y=b"
      Token(nX, FALSE, <<DQuote, "a">>),         \* X="a
      Token(nX, TRUE, EmptyStr) }                \* X=""

TokenText(t) ==
    t.name \o <<"=">> \o (IF t.quoted THEN <<DQuote>> \o t.v \o <<DQuote>> ELSE t.v)

\* " ".join(parts)
RECURSIVE JoinFrom(_, _)
JoinFrom(parts, n) ==
    IF n > Len(parts) THEN EmptyStr
    ELSE IF n = Len(parts) THEN parts[n]
    ELSE parts[n] \o <<" ">> \o JoinFrom(parts, n + 1)

\* The environment string made of the tokens ts.
EnvString(ts) == JoinFrom([n \in 1..Len(ts) |-> TokenText(ts[n])], 1)

\* The parser state while main() is what runs.
ParserOff ==
    [phase |-> "off", tokens |-> <<>>, text |-> EmptyStr, parsed |-> EmptyDict,
     serialized |-> EmptyStr, reparsed |-> EmptyDict]

\* ------------------------------------------------------------------------
\* State
\* ------------------------------------------------------------------------

VARIABLES
    travis,        \* the loaded configuration
    environ,       \* os.environ
    argv,          \* sys.argv[1:]
    script,        \* translate_script(travis['script'])
    pc,            \* position of main(): "args", "loop", "script", "finish",
                   \* "report", "done", "usage_exit", "crashed"
    argi,          \* index of the next argument
    include_vers,
    exclude_vers,
    rust_vers,
    results,
    veri,          \* index of rust_ver in rust_vers
    envi,          \* index of env_var_str in travis.get('env', [""])
    rowi,          \* index of row in chain([{}], matrix_includes)
    seq_id,
    env,           \* the env argument of the current run_script call
    cmd_env,       \* cmd_env of the current run_script call
    stepi,         \* index of cmd in script
    success,
    log_files,     \* the log paths whose file object is open
    started,       \* history: the run_script calls made so far
    spawned,       \* history: the child processes run so far
    opened,        \* history: the log paths opened so far
    summary,       \* the lines printed after 'Results:'
    parser         \* a parse_env_vars call studied on its own: its input,
                   \* its result, the result written back as a string and
                   \* the result of parsing that string

vars == <<travis, environ, argv, script, pc, argi, include_vers, exclude_vers,
          rust_vers, results, veri, envi, rowi, seq_id, env, cmd_env, stepi,
          success, log_files, started, spawned, opened, summary, parser>>

\* ------------------------------------------------------------------------
\* The expressions of main(), run_script() and sh()
\* ------------------------------------------------------------------------

\* x in l, for a list l
InList(x, l) == \E n \in 1..Len(l) : l[n] = x

\* set(l)
ToSet(l) == {l[n] : n \in 1..Len(l)}

\* s.startswith(p)
StartsWith(s, p) == Len(s) >= Len(p) /\ SubSeq(s, 1, Len(p)) = p

\* arg in vers and arg not in include_vers
ArgIncludes(arg, vers, incl) == arg \in vers /\ ~InList(arg, incl)

\* Variant: any argument with a leading '-' is taken as an exclusion.
ArgExcludes_AnyDash(arg, vers) == StartsWith(arg, <<"-">>)

\* arg.startswith('-') and arg[1:] in vers
ArgExcludes(arg, vers) == StartsWith(arg, <<"-">>) /\ From(arg, 2) \in vers

\* Variant: the exclusions are applied to the default list only.
SelectRustVers_DefaultsOnly(incl, excl, default_rust_vers) ==
    IF incl = <<>> THEN SelectSeq(default_rust_vers, LAMBDA v : v \notin excl) ELSE incl

\* include_vers defaults to default_rust_vers[:] when empty; then
\* rust_vers = [v for v in include_vers if v not in exclude_vers]
SelectRustVers(incl, excl, default_rust_vers) ==
    LET inc == IF incl = <<>> THEN default_rust_vers ELSE incl
    IN  SelectSeq(inc, LAMBDA v : v \notin excl)

\* travis.get('env', [""])
EnvAlternatives(t) == IF t.has_env THEN t.env ELSE <<EmptyStr>>

\* chain([{}], matrix_includes)
Rows(t) == <<EmptyRow>> \o t.include

\* Variant: the pinned version of a row is not looked at.
RowApplies_Always(row, rust_ver) == TRUE

\* not (row.get('rust', None) not in (None, rust_ver))
RowApplies(row, rust_ver) == ~row.has_rust \/ row.rust = rust_ver

\* row.get('env', "")
RowEnvStr(row) == IF row.has_env THEN row.env ELSE EmptyStr

\* Variant: the two updates are made in the other order.
MergeEnv_AlternativeWins(env_vars, row_env_vars) ==
    Update(Update(EmptyDict, row_env_vars), env_vars)

\* cmd_env = {}; cmd_env.update(env_vars); cmd_env.update(row_env_vars)
MergeEnv(env_vars, row_env_vars) == Update(Update(EmptyDict, env_vars), row_env_vars)

\* '%s-%d' % (rust_ver, seq_id)
RunName(rust_ver, n) == rust_ver \o <<"-">> \o FormatInt(n)

\* Variant: the directory is named after the version alone.
TargetDir_VersionOnly(rust_ver, n) == <<"t","a","r","g","e","t","/">> \o rust_ver

\* os.path.join('target', '%s-%d' % (rust_ver, seq_id))
TargetDir(rust_ver, n) == <<"t","a","r","g","e","t","/">> \o RunName(rust_ver, n)

\* os.path.join(LOG_DIR, '%s-%d.log' % (rust_ver, seq_id))
LogPath(rust_ver, n) == <<"l","o","c","a","l","/","t","e","s","t","s","/">> \o RunName(rust_ver, n) \o <<".","l","o","g">>

\* cmd_env = os.environ.copy(); cmd_env['CARGO_TARGET_DIR'] = target_dir;
\* cmd_env.update(env)
EffectiveEnv(os_environ, target_dir, run_env) ==
    Update(SetItem(os_environ, CARGO_TARGET_DIR, target_dir), run_env)

\* 'multirust run %s %s' % (rust_ver, cmd)
CommandLine(rust_ver, cmd) == <<"m","u","l","t","i","r","u","s","t"," ","r","u","n"," ">> \o rust_ver \o <<" ">> \o cmd

\* Variant: True is never returned, the function falls off its end.
Sh_ReturnsNone(exit_ok, checked) ==
    [raised |-> ~exit_ok /\ checked, truthy |-> FALSE]

\* Variant: the exception of a failed child is re-raised whatever 'checked'.
Sh_AlwaysRaise(exit_ok, checked) ==
    [raised |-> ~exit_ok, truthy |-> exit_ok /\ ~checked]

\* sh(): check_call raises when the child exits non-zero or cannot be
\* spawned; the exception is re-raised when checked, else False is
\* returned; True is returned only when not checked (None otherwise).
Sh(exit_ok, checked) ==
    IF ~exit_ok
    THEN [raised |-> checked, truthy |-> FALSE]
    ELSE [raised |-> FALSE, truthy |-> ~checked]

\* Variant: the loop over the steps goes on after a failure.
StepBreaks_Never(ok) == FALSE

\* if not success: ... break
StepBreaks(ok) == ~ok

\* seq_id += 1
SeqIdAfterRun(n) == n + 1

\* Variant: a skipped row consumes a sequence index.
SeqIdAfterSkip_Incremented(n) == n + 1

\* continue: the increment at the end of the loop body is not reached
SeqIdAfterSkip(n) == n

\* Variant: the outcome printed does not depend on the result.
Outcome_AlwaysOK(ok) == "OK"

\* 'OK' if success else 'Failed!'
Outcome(ok) == IF ok THEN "OK" ELSE "Failed!"

\* The position of the three nested for loops when version number v of the
\* run list rv is entered: the body runs only if there is a version and an
\* environment alternative.
EnterVersion(t, rv, v) ==
    IF v > Len(rv) \/ Len(EnvAlternatives(t)) = 0
    THEN [pc |-> "report", veri |-> v, envi |-> 1, rowi |-> 1, reset |-> TRUE]
    ELSE [pc |-> "loop", veri |-> v, envi |-> 1, rowi |-> 1, reset |-> TRUE]

\* Variant: the loop over the rows is the outer one.
AfterRow_AlternativesInner(t, rv, v, e, r) ==
    IF e < Len(EnvAlternatives(t))
    THEN [pc |-> "loop", veri |-> v, envi |-> e + 1, rowi |-> r, reset |-> FALSE]
    ELSE IF r < Len(Rows(t))
    THEN [pc |-> "loop", veri |-> v, envi |-> 1, rowi |-> r + 1, reset |-> FALSE]
    ELSE EnterVersion(t, rv, v + 1)

\* The position after the iteration (v, e, r): next row, else next
\* environment alternative, else next version.
AfterRow(t, rv, v, e, r) ==
    IF r < Len(Rows(t))
    THEN [pc |-> "loop", veri |-> v, envi |-> e, rowi |-> r + 1, reset |-> FALSE]
    ELSE IF e < Len(EnvAlternatives(t))
    THEN [pc |-> "loop", veri |-> v, envi |-> e + 1, rowi |-> 1, reset |-> FALSE]
    ELSE EnterVersion(t, rv, v + 1)

\* Variant: cmd_env is os.environ itself, not a copy.
EnvironAfterBuild_Aliased(os_environ, eff) == eff

\* os.environ once cmd_env is built: cmd_env starts as os.environ.copy(), so
\* the assignment and the update that follow change the copy only.
EnvironAfterBuild(os_environ, eff) == os_environ

\* Variant: run_script returns without closing its log file.
CloseLog_Leak(files, log_path) == files

\* log_file.close(): the handle of the run is no longer open.
CloseLog(files, log_path) == files \ {log_path}

\* ------------------------------------------------------------------------
\* Init and the steps of main()
\* ------------------------------------------------------------------------

\* main() is entered with configuration and environment inp and command
\* line args.
MainStart(inp, args) ==
    /\ travis = inp.travis
    /\ environ = inp.environ
    /\ argv = args
    /\ script = translate_script(inp.travis.script)
    /\ pc = "args"
    /\ argi = 1
    /\ include_vers = <<>>
    /\ exclude_vers = {}
    /\ rust_vers = <<>>
    /\ results = <<>>
    /\ veri = 1
    /\ envi = 1
    /\ rowi = 1
    /\ seq_id = 0
    /\ env = EmptyDict
    /\ cmd_env = EmptyDict
    /\ stepi = 1
    /\ success = TRUE
    /\ log_files = {}
    /\ started = <<>>
    /\ spawned = <<>>
    /\ opened = <<>>
    /\ summary = <<>>

Init ==
    /\ \E inp \in Inputs : \E args \in SeqsUpTo(inp.args, MaxArgs) : MainStart(inp, args)
    /\ parser = ParserOff

runVars == <<env, cmd_env, stepi, success, log_files, started, spawned, opened>>
loopVars == <<veri, envi, rowi, seq_id>>
\* What main() only reads, and the parser state it does not touch.
inputVars == <<travis, environ, argv, script, parser>>

\* One iteration of 'for arg in sys.argv[1:]'.
ProcessArg ==
    /\ pc = "args"
    /\ argi <= Len(argv)
    /\ LET arg == argv[argi]
           vers == ToSet(travis.rust)
       IN  IF ArgIncludes(arg, vers, include_vers)
           THEN /\ include_vers' = Append(include_vers, arg)
                /\ argi' = argi + 1
                /\ UNCHANGED <<exclude_vers, pc>>
           ELSE IF ArgExcludes(arg, vers)
           THEN /\ exclude_vers' = exclude_vers \cup {From(arg, 2)}
                /\ argi' = argi + 1
                /\ UNCHANGED <<include_vers, pc>>
           ELSE /\ pc' = "usage_exit"
                /\ UNCHANGED <<include_vers, exclude_vers, argi>>
    /\ UNCHANGED <<inputVars, rust_vers, results, loopVars, runVars, summary>>

\* The run list is computed and the loops are entered.
SelectVersions ==
    /\ pc = "args"
    /\ argi > Len(argv)
    /\ LET rv == SelectRustVers(include_vers, exclude_vers, travis.rust)
           pos == EnterVersion(travis, rv, 1)
       IN  /\ rust_vers' = rv
           /\ pc' = pos.pc
           /\ veri' = pos.veri
           /\ envi' = pos.envi
           /\ rowi' = pos.rowi
           /\ seq_id' = 0
    /\ UNCHANGED <<inputVars, argi, include_vers, exclude_vers, results, runVars, summary>>

\* A row pinned to another version: continue.
SkipRow ==
    /\ pc = "loop"
    /\ ~RowApplies(Rows(travis)[rowi], rust_vers[veri])
    /\ LET pos == AfterRow(travis, rust_vers, veri, envi, rowi)
       IN  /\ pc' = pos.pc
           /\ veri' = pos.veri
           /\ envi' = pos.envi
           /\ rowi' = pos.rowi
           /\ seq_id' = IF pos.reset THEN 0 ELSE SeqIdAfterSkip(seq_id)
    /\ UNCHANGED <<inputVars, argi, include_vers, exclude_vers, rust_vers, results,
                   runVars, summary>>

\* The environment of the run is merged and run_script is entered: the log
\* file is opened and the effective environment is built.
StartRun ==
    /\ pc = "loop"
    /\ RowApplies(Rows(travis)[rowi], rust_vers[veri])
    /\ LET rust_ver == rust_vers[veri]
           env_vars == parse_env_vars(EnvAlternatives(travis)[envi])
           row_env_vars == parse_env_vars(RowEnvStr(Rows(travis)[rowi]))
           run_env == MergeEnv(env_vars, row_env_vars)
           target_dir == TargetDir(rust_ver, seq_id)
           log_path == LogPath(rust_ver, seq_id)
           eff == EffectiveEnv(environ, target_dir, run_env)
       IN  /\ env' = run_env
           /\ cmd_env' = eff
           /\ environ' = EnvironAfterBuild(environ, eff)
           /\ log_files' = log_files \cup {log_path}
           /\ opened' = Append(opened, log_path)
           /\ started' = Append(started, [rust_ver |-> rust_ver, seq_id |-> seq_id,
                                           envi |-> envi, rowi |-> rowi,
                                           env |-> run_env, cmd_env |-> eff])
    /\ stepi' = 1
    /\ success' = TRUE
    /\ pc' = "script"
    /\ UNCHANGED <<travis, argv, script, parser, argi, include_vers, exclude_vers,
                   rust_vers, results, loopVars, spawned, summary>>

\* One iteration of 'for cmd in script': the step is substituted (a
\* KeyError leaves main), the child runs and exits with either status.
RunStep ==
    /\ pc = "script"
    /\ LET rust_ver == rust_vers[veri]
           sub == Substitute(script[stepi], cmd_env)
       IN  IF ~sub.ok
           THEN /\ pc' = "crashed"
                /\ UNCHANGED <<stepi, success, spawned>>
           ELSE \E exit_ok \in BOOLEAN :
                  LET r == Sh(exit_ok, FALSE)
                  IN  /\ spawned' = Append(spawned,
                             [rust_ver |-> rust_ver, seq_id |-> seq_id, stepi |-> stepi,
                              cmd |-> CommandLine(rust_ver, sub.out),
                              run_env |-> env, env |-> cmd_env, exit_ok |-> exit_ok])
                      /\ IF r.raised
                         THEN /\ pc' = "crashed"
                              /\ UNCHANGED <<stepi, success>>
                         ELSE /\ success' = r.truthy
                              /\ IF StepBreaks(r.truthy) \/ stepi = Len(script)
                                 THEN /\ pc' = "finish"
                                      /\ UNCHANGED stepi
                                 ELSE /\ pc' = "script"
                                      /\ stepi' = stepi + 1
    /\ UNCHANGED <<inputVars, argi, include_vers, exclude_vers, rust_vers, results,
                   loopVars, env, cmd_env, log_files, started, opened, summary>>

\* run_script closes the log and returns; main records the result,
\* increments seq_id and goes to the next iteration.
FinishRun ==
    /\ pc = "finish"
    /\ log_files' = CloseLog(log_files, LogPath(rust_vers[veri], seq_id))
    /\ results' = Append(results, [rust_ver |-> rust_vers[veri], seq_id |-> seq_id,
                                   success |-> success])
    /\ LET pos == AfterRow(travis, rust_vers, veri, envi, rowi)
       IN  /\ pc' = pos.pc
           /\ veri' = pos.veri
           /\ envi' = pos.envi
           /\ rowi' = pos.rowi
           /\ seq_id' = IF pos.reset THEN 0 ELSE SeqIdAfterRun(seq_id)
    /\ UNCHANGED <<inputVars, argi, include_vers, exclude_vers, rust_vers,
                   env, cmd_env, stepi, success, started, spawned, opened, summary>>

\* The summary is printed and main returns.
Report ==
    /\ pc = "report"
    /\ summary' = [n \in 1..Len(results) |->
                     [rust_ver |-> results[n].rust_ver, seq_id |-> results[n].seq_id,
                      outcome |-> Outcome(results[n].success)]]
    /\ pc' = "done"
    /\ UNCHANGED <<inputVars, argi, include_vers, exclude_vers, rust_vers, results,
                   loopVars, runVars>>

Next ==
    \/ ProcessArg
    \/ SelectVersions
    \/ SkipRow
    \/ StartRun
    \/ RunStep
    \/ FinishRun
    \/ Report

Spec == Init /\ [][Next]_vars

\* The exit status of the process; -1 while main() is running.  sys.exit(1)
\* and an uncaught exception both end the interpreter with status 1.
ExitStatus ==
    CASE pc = "usage_exit" -> 1
      [] pc = "crashed" -> 1
      [] pc = "done" -> 0
      [] OTHER -> -1

\* main() has returned or the interpreter was ended.
Ended == pc \in {"done", "crashed", "usage_exit"}

\* The interpreter keeps executing the sequential program until it has ended:
\* weak fairness of Next, written with the enabling condition of Next (a step
\* is possible exactly when the process has not Ended).
FairSpec == Spec /\ ([]<>Ended \/ []<><<Next>>_vars)

\* ------------------------------------------------------------------------
\* parse_env_vars on its own: a string is parsed, the map is written back
\* as a string of KEY=value pairs and that string is parsed
\* ------------------------------------------------------------------------

\* Does value v contain whitespace?
HasWhiteSpace(v) == \E n \in 1..Len(v) : v[n] \in WhiteSpace

\* KEY=value, the value double-quoted when it contains whitespace.
PairText(k, v) ==
    k \o <<"=">> \o (IF HasWhiteSpace(v) THEN <<DQuote>> \o v \o <<DQuote>> ELSE v)

\* The orders in which the keys of map d can be written.
KeyOrders(d) ==
    {o \in [1..Cardinality(DOMAIN d) -> DOMAIN d] :
        \A a, b \in DOMAIN o : a # b => o[a] # o[b]}

\* The map d written with its keys in order o.
Serialize(d, o) == JoinFrom([n \in 1..Len(o) |-> PairText(o[n], d[o[n]])], 1)

mainVars == <<travis, environ, argv, script, pc, argi, include_vers, exclude_vers,
              rust_vers, results, veri, envi, rowi, seq_id, env, cmd_env, stepi,
              success, log_files, started, spawned, opened, summary>>

ParserInit ==
    /\ MainStart([travis |-> Travis(<<vA>>, ScriptOne, Shape(FALSE, <<>>, <<>>)),
                  environ |-> EmptyDict], <<>>)
    /\ \E ts \in SeqsUpTo(Tokens, MaxTokens) :
          parser = [ParserOff EXCEPT !.phase = "input", !.tokens = ts,
                                     !.text = EnvString(ts)]

\* env_vars = parse_env_vars(text)
Parse ==
    /\ parser.phase = "input"
    /\ parser' = [parser EXCEPT !.phase = "parsed",
                                !.parsed = parse_env_vars(parser.text)]
    /\ UNCHANGED mainVars

\* The map is written back, its keys in any order.
WriteBack ==
    /\ parser.phase = "parsed"
    /\ \E o \in KeyOrders(parser.parsed) :
          parser' = [parser EXCEPT !.phase = "serialized",
                                  !.serialized = Serialize(parser.parsed, o)]
    /\ UNCHANGED mainVars

\* parse_env_vars(serialized)
Reparse ==
    /\ parser.phase = "serialized"
    /\ parser' = [parser EXCEPT !.phase = "reparsed",
                                !.reparsed = parse_env_vars(parser.serialized)]
    /\ UNCHANGED mainVars

ParserNext ==
    \/ Parse
    \/ WriteBack
    \/ Reparse

ParserSpec == ParserInit /\ [][ParserNext]_vars

\* ------------------------------------------------------------------------
\* Version selection
\* ------------------------------------------------------------------------

DefaultSet == ToSet(travis.rust)

\* The argument is a bare default version / an exclusion of one.
IsIncludeArg(a) == a \in DefaultSet
IsExcludeArg(a) == a \notin DefaultSet /\ StartsWith(a, <<"-">>) /\ From(a, 2) \in DefaultSet

\* Every argument is a default version given at most once or an exclusion.
ArgsWellFormed ==
    \A n \in 1..Len(argv) :
        \/ IsIncludeArg(argv[n]) /\ \A m \in 1..Len(argv) : argv[m] = argv[n] => m = n
        \/ IsExcludeArg(argv[n])

\* Some argument is neither a default version nor an exclusion of one.
HasBadArg == \E n \in 1..Len(argv) : ~IsIncludeArg(argv[n]) /\ ~IsExcludeArg(argv[n])
FirstBadArg == CHOOSE n \in 1..Len(argv) :
                  /\ ~IsIncludeArg(argv[n]) /\ ~IsExcludeArg(argv[n])
                  /\ \A m \in 1..(n - 1) : IsIncludeArg(argv[m]) \/ IsExcludeArg(argv[m])

\* Some default version is given twice as a bare argument.
HasDuplicateInclude ==
    \E n, m \in 1..Len(argv) : n < m /\ argv[n] = argv[m] /\ IsIncludeArg(argv[n])

\* The bare versions of a, each at its first occurrence.
RECURSIVE FirstOccurrences(_)
FirstOccurrences(a) ==
    IF a = <<>> THEN <<>>
    ELSE LET init == SubSeq(a, 1, Len(a) - 1)
             last == a[Len(a)]
         IN  IF IsIncludeArg(last) /\ ~InList(last, init)
             THEN Append(FirstOccurrences(init), last)
             ELSE FirstOccurrences(init)

ExcludedByArgs == {From(argv[n], 2) : n \in {m \in 1..Len(argv) : IsExcludeArg(argv[m])}}

\* The run list the command line asks for.
ExpectedRunList ==
    LET inc == IF FirstOccurrences(argv) = <<>> THEN travis.rust ELSE FirstOccurrences(argv)
    IN  SelectSeq(inc, LAMBDA v : v \notin ExcludedByArgs)

Selected == pc \notin {"args", "usage_exit"}

NothingRan == started = <<>> /\ spawned = <<>> /\ opened = <<>> /\ results = <<>> /\ log_files = {}

\* C1: when every argument is a default version given at most once or '-'
\* followed by a default version, argument processing does not fail and the
\* run list is the explicitly included versions in order of first
\* appearance (the default list when there is none) without the excluded
\* versions, wherever the exclusions stand on the command line.
C1_VersionSelection ==
    ArgsWellFormed =>
        /\ pc # "usage_exit"
        /\ Selected => rust_vers = ExpectedRunList

\* An exclusion given after the include it does not name; the run list is
\* the included version alone.
C1_Witness ==
    /\ travis.rust = <<vA, vB, vC>>
    /\ argv = <<vB, <<"-">> \o vA>>
    /\ pc = "done"
    /\ rust_vers = <<vB>>

\* C2: a default version given more than once as a bare argument is ignored
\* after its first occurrence: argument processing does not fail, the run
\* list holds the version once, at the position of its first occurrence, and
\* the runs proceed.
C2_DuplicateIncludeIgnored ==
    (HasDuplicateInclude /\ ~HasBadArg) =>
        /\ pc # "usage_exit"
        /\ Selected => rust_vers = ExpectedRunList

\* C3: when some argument is neither a default version nor '-' followed by a
\* default version, the process ends with a non-zero exit status at the
\* first such argument at the latest, and nothing has run: no run is
\* started, no child is spawned, no log is opened, no result is recorded.
C3_UsageError ==
    HasBadArg =>
        /\ pc \in {"args", "usage_exit"}
        /\ argi <= FirstBadArg
        /\ pc # "args" => ExitStatus = 1
        /\ NothingRan

\* The bad argument stands after a valid include, which was processed.
C3_Witness ==
    /\ argv = <<vA, <<"-", "z">>>>
    /\ include_vers = <<vA>>
    /\ pc = "usage_exit"
    /\ NothingRan

\* ------------------------------------------------------------------------
\* Matrix expansion and execution
\* ------------------------------------------------------------------------

SameRun(r1, r2) == r1.rust_ver = r2.rust_ver /\ r1.seq_id = r2.seq_id

RunKey(r) == [rust_ver |-> r.rust_ver, seq_id |-> r.seq_id]
Keys(l) == [n \in 1..Len(l) |-> RunKey(l[n])]

IsPrefix(a, b) == Len(a) <= Len(b) /\ SubSeq(b, 1, Len(a)) = a

\* The sequence indices of the runs started so far for version v, in order.
SeqIdsOf(v) ==
    LET sel == SelectSeq(started, LAMBDA r : r.rust_ver = v)
    IN  [n \in 1..Len(sel) |-> sel[n].seq_id]

\* C4: the sequence indices of the runs started so far for a version are
\* 0, 1, .., k-1 in this order, without gap or repeat, whatever rows were
\* skipped, and start again at 0 for each version.
C4_SequenceIndex ==
    \A v \in DefaultSet :
        \A n \in 1..Len(SeqIdsOf(v)) : SeqIdsOf(v)[n] = n - 1

\* The second version's second run is started for the second environment
\* alternative, after a row pinned to the first version was skipped.
C4_Witness ==
    /\ rust_vers = <<vA, vB>>
    /\ \E n \in 1..Len(travis.include) :
          travis.include[n].has_rust /\ travis.include[n].rust = vA
    /\ \E n \in 1..Len(started) :
          /\ started[n].rust_ver = vB
          /\ started[n].envi = 2
          /\ started[n].seq_id = 1
    /\ \E n \in 1..Len(started) : started[n].rust_ver = vA /\ started[n].seq_id > 1

\* C5: within a run the steps are executed in the configured order, and no
\* step of a run is executed after a step of that run has failed.
C5_ShortCircuit ==
    \A j \in 1..Len(spawned) :
        LET before == {i \in 1..(j - 1) : SameRun(spawned[i], spawned[j])}
        IN  /\ spawned[j].stepi = Cardinality(before) + 1
            /\ \A i \in before : spawned[i].exit_ok

\* The first step of a three-step script failed, the run was recorded as
\* failed with no other step executed, and the matrix went on to the end.
C5_Witness ==
    /\ Len(script) = 3
    /\ pc = "done"
    /\ \E n \in 1..Len(spawned) :
          /\ spawned[n].stepi = 1
          /\ ~spawned[n].exit_ok
          /\ \E m \in 1..Len(results) :
                SameRun(results[m], spawned[n]) /\ ~results[m].success

\* The names that string s references as $NAME or ${NAME}.
Refs(s) ==
    {SubSeq(s, i + 1, RunEnd(s, i + 1, WordChars) - 1) :
        i \in {k \in 1..Len(s) : s[k] = "$" /\ IsWordAt(s, k + 1)}}
    \cup
    {SubSeq(s, i + 2, RunEnd(s, i + 2, WordChars) - 1) :
        i \in {k \in 1..Len(s) :
                 /\ s[k] = "$" /\ k + 1 <= Len(s) /\ s[k + 1] = "{"
                 /\ IsWordAt(s, k + 2)
                 /\ RunEnd(s, k + 2, WordChars) <= Len(s)
                 /\ s[RunEnd(s, k + 2, WordChars)] = "}"}}

\* The (alternative, row) combinations of version v, in loop order.
CombosOf(v) ==
    LET nr == Len(Rows(travis))
        ne == Len(EnvAlternatives(travis))
        all == [k \in 1..(ne * nr) |-> [envi |-> ((k - 1) \div nr) + 1,
                                        rowi |-> ((k - 1) % nr) + 1]]
    IN  SelectSeq(all, LAMBDA c : RowApplies(Rows(travis)[c.rowi], v))

\* The run specifications of version v.
RunSpecsOf(v) ==
    [n \in 1..Len(CombosOf(v)) |->
        [rust_ver |-> v, seq_id |-> n - 1,
         envi |-> CombosOf(v)[n].envi, rowi |-> CombosOf(v)[n].rowi]]

\* The run specifications of the versions rv[i..], in order.
RECURSIVE RunSpecsFrom(_, _)
RunSpecsFrom(rv, i) ==
    IF i > Len(rv) THEN <<>> ELSE RunSpecsOf(rv[i]) \o RunSpecsFrom(rv, i + 1)

ExpectedRuns == RunSpecsFrom(rust_vers, 1)

\* The environment variables defined in a run of the combination c.
DefinedIn(c) ==
    DOMAIN EffectiveEnv(environ, EmptyStr,
                        MergeEnv(parse_env_vars(EnvAlternatives(travis)[c.envi]),
                                 parse_env_vars(RowEnvStr(Rows(travis)[c.rowi]))))

\* No step references a variable that some run does not define.
NoUndefinedRef ==
    \A v \in DefaultSet :
        \A n \in 1..Len(CombosOf(v)) :
            \A k \in 1..Len(script) : Refs(script[k]) \subseteq DefinedIn(CombosOf(v)[n])

\* C6: provided no step references an undefined variable, a failing step
\* never ends the matrix: the runs started and the results recorded are, in
\* order, the run specifications of the expansion, each once, and all of
\* them when the loops are left.
C6_FailureIsolation ==
    NoUndefinedRef =>
        /\ pc # "crashed"
        /\ IsPrefix(Keys(started), Keys(ExpectedRuns))
        /\ IsPrefix(Keys(results), Keys(started))
        /\ Len(started) <= Len(results) + 1
        /\ pc \in {"report", "done"} => Keys(results) = Keys(ExpectedRuns)

\* A run failed, later runs were executed, and every run specification has
\* its result.
C6_Witness ==
    /\ NoUndefinedRef
    /\ pc = "done"
    /\ Len(results) >= 3
    /\ Keys(results) = Keys(ExpectedRuns)
    /\ ~results[1].success
    /\ results[Len(results)].success

\* ------------------------------------------------------------------------
\* Substitution
\* ------------------------------------------------------------------------

\* Is there a reference $NAME or ${NAME} at index i of s, and where does it
\* end, whatever follows it?
RefAt(s, i) ==
    LET j  == RunEnd(s, i + 1, WordChars)
        j2 == RunEnd(s, i + 2, WordChars)
    IN  IF s[i] = "$" /\ j > i + 1
        THEN [is_ref |-> TRUE, name |-> SubSeq(s, i + 1, j - 1), end |-> j]
        ELSE IF /\ s[i] = "$" /\ i + 1 <= Len(s) /\ s[i + 1] = "{"
                /\ j2 > i + 2 /\ j2 <= Len(s) /\ s[j2] = "}"
        THEN [is_ref |-> TRUE, name |-> SubSeq(s, i + 2, j2 - 1), end |-> j2 + 1]
        ELSE [is_ref |-> FALSE, name |-> EmptyStr, end |-> i + 1]

\* s from index i on with every reference replaced by its value in e (the
\* referenced names are keys of e).
RECURSIVE AllReplacedFrom(_, _, _)
AllReplacedFrom(s, i, e) ==
    IF i > Len(s) THEN EmptyStr
    ELSE LET r == RefAt(s, i)
         IN  IF r.is_ref
             THEN e[r.name] \o AllReplacedFrom(s, r.end, e)
             ELSE <<s[i]>> \o AllReplacedFrom(s, i + 1, e)

\* C7: in every executed step whose references are all defined, every
\* occurrence of $NAME and of ${NAME} is replaced by the value of NAME in
\* the effective environment, whatever follows the occurrence, and the
\* executed command holds no reference any more.
C7_Substitution ==
    \A n \in 1..Len(spawned) :
        LET r == spawned[n]
            step == script[r.stepi]
        IN  Refs(step) \subseteq DOMAIN r.env =>
                /\ r.cmd = CommandLine(r.rust_ver, AllReplacedFrom(step, 1, r.env))
                /\ Refs(r.cmd) = {}

\* C8: when a step of a run references a variable that the run's effective
\* environment does not define, that step is not executed, no result is
\* recorded for the run, and no later run is started.
C8_UndefinedAborts ==
    \A m \in 1..Len(started) :
        \A k \in 1..Len(script) :
            ~(Refs(script[k]) \subseteq DOMAIN started[m].cmd_env) =>
                /\ \A n \in 1..Len(spawned) :
                      SameRun(spawned[n], started[m]) => spawned[n].stepi < k
                /\ \A n \in 1..Len(results) : ~SameRun(results[n], started[m])
                /\ m = Len(started)

\* ------------------------------------------------------------------------
\* Environment of a run
\* ------------------------------------------------------------------------

\* C9 as stated: any two child processes of distinct runs are handed
\* different values of CARGO_TARGET_DIR, for every configuration.
C9_DistinctTargetDirs ==
    \A i, j \in 1..Len(spawned) :
        ~SameRun(spawned[i], spawned[j]) =>
            spawned[i].env[CARGO_TARGET_DIR] # spawned[j].env[CARGO_TARGET_DIR]

\* C9 amended: any two child processes of distinct runs, neither of whose
\* run environment (environment alternative overlaid with override row)
\* defines CARGO_TARGET_DIR, are handed different values of
\* CARGO_TARGET_DIR.
C9_DistinctTargetDirsUnlessOverridden ==
    \A i, j \in 1..Len(spawned) :
        (/\ ~SameRun(spawned[i], spawned[j])
         /\ CARGO_TARGET_DIR \notin DOMAIN spawned[i].run_env
         /\ CARGO_TARGET_DIR \notin DOMAIN spawned[j].run_env) =>
            spawned[i].env[CARGO_TARGET_DIR] # spawned[j].env[CARGO_TARGET_DIR]

\* Two runs of one version, with an inherited CARGO_TARGET_DIR that neither
\* run environment defines, have spawned children.
C9_Witness ==
    /\ CARGO_TARGET_DIR \in DOMAIN environ
    /\ \E i, j \in 1..Len(spawned) :
          /\ spawned[i].rust_ver = spawned[j].rust_ver
          /\ spawned[i].seq_id # spawned[j].seq_id
          /\ CARGO_TARGET_DIR \notin DOMAIN spawned[i].run_env
          /\ CARGO_TARGET_DIR \notin DOMAIN spawned[j].run_env

\* The parsed environment alternative and override row of started run r.
AltOf(r) == parse_env_vars(EnvAlternatives(travis)[r.envi])
RowOf(r) == parse_env_vars(RowEnvStr(Rows(travis)[r.rowi]))

\* C10 as stated: the value of every variable in the effective environment
\* is the row's if the row defines it, else the alternative's if it defines
\* it, else the inherited one if present.
C10_Precedence ==
    \A n \in 1..Len(started) :
        LET r == started[n]
        IN  \A k \in (DOMAIN RowOf(r)) \cup (DOMAIN AltOf(r)) \cup (DOMAIN environ) :
                /\ k \in DOMAIN r.cmd_env
                /\ r.cmd_env[k] = IF k \in DOMAIN RowOf(r) THEN RowOf(r)[k]
                                  ELSE IF k \in DOMAIN AltOf(r) THEN AltOf(r)[k]
                                  ELSE environ[k]

\* C10 amended: the value of every variable in the effective environment is
\* the row's if the row defines it, else the alternative's if it defines it,
\* else, for CARGO_TARGET_DIR, the run's build directory target/<version>-
\* <sequence index>, else the inherited one if present; no other variable
\* is defined.
C10_PrecedenceWithTargetDir ==
    \A n \in 1..Len(started) :
        LET r == started[n]
            names == (DOMAIN RowOf(r)) \cup (DOMAIN AltOf(r)) \cup (DOMAIN environ)
                        \cup {CARGO_TARGET_DIR}
        IN  /\ DOMAIN r.cmd_env = names
            /\ \A k \in names :
                  r.cmd_env[k] = IF k \in DOMAIN RowOf(r) THEN RowOf(r)[k]
                                 ELSE IF k \in DOMAIN AltOf(r) THEN AltOf(r)[k]
                                 ELSE IF k = CARGO_TARGET_DIR
                                 THEN TargetDir(r.rust_ver, r.seq_id)
                                 ELSE environ[k]

\* A run whose row, alternative and inherited environment all define one
\* variable with different values, and a run that inherits a CARGO_TARGET_DIR defined by
\* neither its row nor its alternative.
C10_Witness ==
    /\ \E n \in 1..Len(started) :
          LET r == started[n]
          IN  \E k \in (DOMAIN RowOf(r)) \cap (DOMAIN AltOf(r)) \cap (DOMAIN environ) :
                  /\ RowOf(r)[k] # AltOf(r)[k]
                  /\ AltOf(r)[k] # environ[k]
                  /\ r.cmd_env[k] = RowOf(r)[k]
    /\ \E n \in 1..Len(started) :
          LET r == started[n]
          IN  /\ CARGO_TARGET_DIR \in DOMAIN environ
              /\ CARGO_TARGET_DIR \notin (DOMAIN RowOf(r)) \cup (DOMAIN AltOf(r))
              /\ nH \in DOMAIN r.cmd_env

\* ------------------------------------------------------------------------
\* Pinning, expansion order, outcome
\* ------------------------------------------------------------------------

\* The row is the synthetic one, is not pinned, or is pinned to version w.
PinAllows(row, w) == ~row.has_rust \/ row.rust = w

\* The environment strings of the rows that may contribute to a run of w.
AllowedRowEnvs(w) ==
    {EmptyStr} \cup
    {RowEnvStr(travis.include[n]) :
        n \in {m \in 1..Len(travis.include) : PinAllows(travis.include[m], w)}}

\* C11: a row pinned to a version never contributes to a run of another
\* version: the environment of every run started for w is some environment
\* alternative overlaid with the synthetic empty row or with a configured
\* row that is not pinned or is pinned to w.
C11_VersionPinning ==
    \A n \in 1..Len(started) :
        LET r == started[n]
        IN  /\ PinAllows(Rows(travis)[r.rowi], r.rust_ver)
            /\ \E a \in ToSet(EnvAlternatives(travis)) :
                  \E e \in AllowedRowEnvs(r.rust_ver) :
                      r.env = Update(parse_env_vars(a), parse_env_vars(e))

\* Both versions ran to the end with a row pinned to the first version that
\* carries variables: it was applied to the first version and every run of
\* the second version used the synthetic row.
C11_Witness ==
    /\ pc = "done"
    /\ rust_vers = <<vA, vB>>
    /\ \E m \in 1..Len(travis.include) :
          /\ travis.include[m].has_rust /\ travis.include[m].rust = vA
          /\ parse_env_vars(RowEnvStr(travis.include[m])) # EmptyDict
          /\ \E n \in 1..Len(started) :
                started[n].rust_ver = vA /\ started[n].rowi = m + 1
    /\ \E n \in 1..Len(started) : started[n].rust_ver = vB
    /\ \A n \in 1..Len(started) : started[n].rust_ver = vB => started[n].rowi = 1

\* The (alternative, row) index pairs of version w in the order alternatives
\* first, rows second, without the rows pinned to another version.
PairsOf(w) ==
    LET nr == Len(travis.include) + 1
        ne == Len(EnvAlternatives(travis))
        all == [k \in 1..(ne * nr) |-> <<((k - 1) \div nr) + 1, ((k - 1) % nr) + 1>>]
    IN  SelectSeq(all, LAMBDA c : c[2] = 1 \/ PinAllows(travis.include[c[2] - 1], w))

\* The run of w generated for the n-th of its pairs.
GeneratedRun(w, n) ==
    LET c == PairsOf(w)[n]
        a == parse_env_vars(EnvAlternatives(travis)[c[1]])
    IN  [rust_ver |-> w, seq_id |-> n - 1, envi |-> c[1], rowi |-> c[2],
         env |-> IF c[2] = 1 THEN a
                 ELSE Update(a, parse_env_vars(RowEnvStr(travis.include[c[2] - 1])))]

RECURSIVE GeneratedFrom(_, _)
GeneratedFrom(rv, i) ==
    IF i > Len(rv) THEN <<>>
    ELSE [n \in 1..Len(PairsOf(rv[i])) |-> GeneratedRun(rv[i], n)] \o GeneratedFrom(rv, i + 1)

\* What main() passed to run_script, call by call.
StartedSpecs ==
    [n \in 1..Len(started) |->
        [rust_ver |-> started[n].rust_ver, seq_id |-> started[n].seq_id,
         envi |-> started[n].envi, rowi |-> started[n].rowi, env |-> started[n].env]]

\* The number of configured rows that are not pinned or are pinned to w.
ApplicableRows(w) ==
    Cardinality({m \in 1..Len(travis.include) : PinAllows(travis.include[m], w)})

\* C12: the runs are generated version by version in run-list order, the
\* alternatives in configured order, and for an alternative the synthetic
\* run (whose environment is the parsed alternative) first, then the
\* applicable rows in configured order; when the loops are left every
\* version has |alternatives| x (1 + applicable rows) runs, one at least for
\* each alternative.
C12_ExpansionOrder ==
    /\ IsPrefix(StartedSpecs, GeneratedFrom(rust_vers, 1))
    /\ pc \in {"report", "done"} =>
          /\ StartedSpecs = GeneratedFrom(rust_vers, 1)
          /\ \A w \in ToSet(rust_vers) :
                /\ Len(SeqIdsOf(w)) = Len(EnvAlternatives(travis)) * (1 + ApplicableRows(w))
                /\ \A e \in 1..Len(EnvAlternatives(travis)) :
                      \E n \in 1..Len(started) :
                          /\ started[n].rust_ver = w
                          /\ started[n].envi = e
                          /\ started[n].rowi = 1
                          /\ started[n].env = parse_env_vars(EnvAlternatives(travis)[e])

\* Two alternatives and an applicable row: the four runs of the first
\* version were made in the order (1, synthetic), (1, row), (2, synthetic),
\* (2, row), and the matrix ran to its end.
C12_Witness ==
    /\ pc = "done"
    /\ Len(EnvAlternatives(travis)) = 2
    /\ Len(started) >= 4
    /\ \A n \in 1..4 : started[n].rust_ver = vA
    /\ <<started[1].envi, started[1].rowi>> = <<1, 1>>
    /\ <<started[2].envi, started[2].rowi>> = <<1, 2>>
    /\ <<started[3].envi, started[3].rowi>> = <<2, 1>>
    /\ <<started[4].envi, started[4].rowi>> = <<2, 2>>

\* The steps of the run of result r that were executed and exited with
\* status zero / with a non-zero status.
StepsOk(r) ==
    {spawned[n].stepi : n \in {m \in 1..Len(spawned) :
                                  SameRun(spawned[m], r) /\ spawned[m].exit_ok}}
StepsFailed(r) ==
    {spawned[n].stepi : n \in {m \in 1..Len(spawned) :
                                  SameRun(spawned[m], r) /\ ~spawned[m].exit_ok}}

\* C13: the result recorded for a run is success exactly when every step of
\* the script was executed and exited with status zero, and failure exactly
\* when some step failed.
C13_RunOutcome ==
    \A n \in 1..Len(results) :
        /\ results[n].success <=> StepsOk(results[n]) = 1..Len(script)
        /\ ~results[n].success <=> StepsFailed(results[n]) # {}

\* A three-step script: one run succeeded in all its steps and another one
\* failed at its second step.
C13_Witness ==
    /\ Len(script) = 3
    /\ \E n \in 1..Len(results) :
          results[n].success /\ StepsOk(results[n]) = {1, 2, 3}
    /\ \E n \in 1..Len(results) :
          ~results[n].success /\ StepsFailed(results[n]) = {2}

\* ------------------------------------------------------------------------
\* Final summary
\* ------------------------------------------------------------------------

\* The summary printed lists the runs attempted, each once, in the order
\* they were started, with the outcome the run returned.
SummaryListsRuns ==
    /\ Len(summary) = Len(started)
    /\ Len(results) = Len(started)
    /\ \A n \in 1..Len(started) :
          /\ summary[n].rust_ver = started[n].rust_ver
          /\ summary[n].seq_id = started[n].seq_id
          /\ SameRun(results[n], started[n])
          /\ summary[n].outcome = IF results[n].success THEN "OK" ELSE "Failed!"


StepsSpawned ==
    {spawned[n].stepi : n \in {m \in 1..Len(spawned) :
                                  /\ spawned[m].rust_ver = rust_vers[veri]
                                  /\ spawned[m].seq_id = seq_id}}

\* C17 as stated: substitution is eager, so when a step of a run references
\* an undefined variable the error is raised before any child process of
\* that run was spawned.
C17_EagerSubstitution ==
    pc = "crashed" => StepsSpawned = {}

\* C17 amended: a step is substituted just before it is executed.  When the
\* undefined-variable error is raised at a step, no child process was
\* spawned for that step or a later one, and every earlier step of the run
\* was executed and exited with status zero.
C17_SubstitutionPerStep ==
    pc = "crashed" =>
        /\ ~Substitute(script[stepi], cmd_env).ok
        /\ StepsSpawned = 1..(stepi - 1)
        /\ \A n \in 1..Len(spawned) :
              (spawned[n].rust_ver = rust_vers[veri] /\ spawned[n].seq_id = seq_id)
                  => spawned[n].exit_ok

\* The error is raised at the second step, after the first one has run.
C17_Witness ==
    /\ pc = "crashed"
    /\ stepi = 2
    /\ StepsSpawned = {1}

\* ------------------------------------------------------------------------
\* Log files
\* ------------------------------------------------------------------------

\* C18: at most one log file is open at any time; every run opens exactly
\* one, its own, when it starts, and that file is closed when the run has
\* returned (before the next run begins, and before the summary), whether
\* the steps of the run all succeeded or one of them failed.
C18_LogHandleDiscipline ==
    /\ Cardinality(log_files) <= 1
    /\ Len(opened) = Len(started)
    /\ \A n \in 1..Len(started) :
          opened[n] = LogPath(started[n].rust_ver, started[n].seq_id)
    /\ pc \in {"script", "finish"} => log_files = {opened[Len(opened)]}
    /\ pc \in {"loop", "report", "done"} => log_files = {}

\* A run failed, a run succeeded, and a third run is in progress with its
\* log file as the only one open.
C18_Witness ==
    /\ pc = "script"
    /\ Len(started) = 3
    /\ ~results[1].success
    /\ results[2].success
    /\ log_files = {opened[3]}
    /\ opened[3] \notin {opened[1], opened[2]}

\* ------------------------------------------------------------------------
\* The process environment
\* ------------------------------------------------------------------------

\* Every variable of the effective environment of each run comes from the
\* run's own environment alternative or override row, is the run's own
\* build directory, or has the value inherited by the runner.
LeakFree ==
    \A n \in 1..Len(started) :
        LET r == started[n]
        IN  \A k \in DOMAIN r.cmd_env :
                \/ k \in DOMAIN r.env /\ r.cmd_env[k] = r.env[k]
                \/ /\ k \notin DOMAIN r.env
                   /\ k = CARGO_TARGET_DIR
                   /\ r.cmd_env[k] = TargetDir(r.rust_ver, r.seq_id)
                \/ /\ k \notin DOMAIN r.env
                   /\ k # CARGO_TARGET_DIR
                   /\ k \in DOMAIN environ
                   /\ r.cmd_env[k] = environ[k]

\* C19: no step of the runner changes its own process environment, and a
\* variable supplied only by an earlier run's environment alternative or
\* override row, or that run's build directory, is absent from, or has its
\* inherited value in, the effective environment of every later run.
C19_NoEnvironmentLeak ==
    /\ [][environ' = environ]_vars
    /\ []LeakFree

\* A later run whose effective environment lacks a variable that an earlier
\* run's override row supplied, the runner having inherited other variables.
C19_Witness ==
    \E m, n \in 1..Len(started) :
        /\ m < n
        /\ nU \in DOMAIN started[m].env
        /\ nU \notin DOMAIN started[n].cmd_env
        /\ nH \in DOMAIN started[n].cmd_env

\* ------------------------------------------------------------------------
\* The environment-string parser
\* ------------------------------------------------------------------------

\* No unquoted token of ts has a value that begins with a double quote.
NoLeadingQuote(ts) ==
    \A n \in 1..Len(ts) :
        (~ts[n].quoted /\ ts[n].v # EmptyStr) => ts[n].v[1] # DQuote

\* The map that the grammar gives for the tokens ts: each NAME has the value
\* of its last token.
GrammarMap(ts) ==
    [k \in {ts[n].name : n \in 1..Len(ts)} |->
        LET last == CHOOSE n \in 1..Len(ts) :
                        /\ ts[n].name = k
                        /\ \A m \in (n + 1)..Len(ts) : ts[m].name # k
        IN  ts[last].v]

\* C15 as stated: parsing, writing the map back and parsing again yields the
\* same map for every string of well-formed tokens, also when a NAME is
\* repeated and when an unquoted value contains a double quote.
C15_RoundTrip ==
    parser.phase = "reparsed" => parser.reparsed = parser.parsed

\* C15 amended: the round trip yields the same map for every string of
\* well-formed tokens none of whose unquoted values begins with a double
\* quote, also when a NAME is repeated and when an unquoted value contains a
\* double quote after its first character.
C15_RoundTripNoLeadingQuote ==
    (parser.phase = "reparsed" /\ NoLeadingQuote(parser.tokens))
        => parser.reparsed = parser.parsed

\* A round trip of a string that repeats a NAME, has a quoted value with
\* whitespace and an unquoted value with a double quote.
C15_Witness ==
    /\ parser.phase = "reparsed"
    /\ NoLeadingQuote(parser.tokens)
    /\ parser.reparsed = parser.parsed
    /\ \E a, b \in 1..Len(parser.tokens) :
          a < b /\ parser.tokens[a].name = parser.tokens[b].name
    /\ nX \in DOMAIN parser.parsed /\ HasWhiteSpace(parser.parsed[nX])
    /\ nY \in DOMAIN parser.parsed /\ DQuote \in ToSet(parser.parsed[nY])

\* C16: the parsed value of a token NAME="v" is v without the quotes, the
\* empty v included; the value of an unquoted token NAME=v is v, possibly
\* empty; the last token of a NAME gives its value.  (An unquoted value that
\* begins with a double quote cannot be told from a quoted one and is left
\* out.)
C16_Grammar ==
    (parser.phase = "parsed" /\ NoLeadingQuote(parser.tokens))
        => parser.parsed = GrammarMap(parser.tokens)

====
